---- MODULE Spec2Model ----
(***************************************************************************)
(* The first pass of the asm6502 assembler (src/src/pass_1.rs): the walk   *)
(* over the parsed lines that keeps the location counter `addr`, fills the *)
(* symbol table and emits the annotated lines, with the cc=01 instruction  *)
(* encoder (the opcode_c_01 macro) it expands for every mnemonic.          *)
(***************************************************************************)
EXTENDS Integers, Sequences, FiniteSets, TLC

VARIABLES
    addr,             \* let mut addr = 0u16            (pass_1.rs:174)
    lines,            \* let mut lines = Vec::new()     (pass_1.rs:173)
    symbol_table,     \* let mut symbol_table = HashMap (pass_1.rs:172)
    line,             \* the parsed line bound by the loop (pass_1.rs:177)
    result,           \* how first_pass ended: None while the loop runs
    overflow_checks,  \* whether the build traps u16 overflow (debug) or wraps
    origin_shift,     \* history: the sum of the jumps made by Origin pragmas
    origin_marks,     \* history: Len(lines) at each jump an Origin pragma made
    steps             \* history: the number of lines the parser has yielded

vars == <<addr, lines, symbol_table, line, result, overflow_checks,
          origin_shift, origin_marks, steps>>

----------------------------------------------------------------------------
(* Bounds of the model.                                                    *)

\* the number of parsed lines of an input of the walker specification
MaxSteps == 3
\* the number of instructions of an input of the encoder specification
MaxInstrs == 1
\* the longest operand of a Bytes pragma
MaxBytesLen == 2

----------------------------------------------------------------------------
(* Machine arithmetic.                                                     *)

\* u16: the width of addr, of Address::Literal and of the symbol values
U16 == 65536

\* u8: the width of an opcode and of a byte operand
U8 == 256

\* a | b on non-negative integers, as the macro ors the mode bits in
RECURSIVE BitOr(_, _)
BitOr(a, b) ==
    IF a = 0 THEN b
    ELSE IF b = 0 THEN a
    ELSE (IF a % 2 = 1 \/ b % 2 = 1 THEN 1 ELSE 0) + 2 * BitOr(a \div 2, b \div 2)

\* a >> k
ShiftRight(a, k) == a \div (2 ^ k)

\* `word as u8`: the truncating cast
AsU8(w) == w % U8

\* whether `addr += k` leaves the u16 range
Overflows(a, k) == a + k >= U16

\* C19's mutant: the sum saturates at 0xFFFF
C19_WrapAddSaturates(a, k) == IF a + k >= U16 THEN U16 - 1 ELSE a + k

\* the value `addr += k` stores when it does not trap
WrapAdd(a, k) == (a + k) % U16

----------------------------------------------------------------------------
(* Strings that the code inspects are sequences of ASCII codes.            *)

ORA == <<111, 114, 97>>
AND == <<97, 110, 100>>
EOR == <<101, 111, 114>>
ADC == <<97, 100, 99>>
STA == <<115, 116, 97>>
LDA == <<108, 100, 97>>
CMP == <<99, 109, 112>>
SBC == <<115, 98, 99>>

\* C7's mutant: the mnemonic is matched as written, without to_lowercase
C7_ToLowercaseOmitted(s) == s

\* str::to_lowercase on ASCII text
ToLowercase(s) ==
    [i \in 1..Len(s) |-> IF s[i] >= 65 /\ s[i] <= 90 THEN s[i] + 32 ELSE s[i]]

----------------------------------------------------------------------------
(* The parser's data (crate::parser), as first_pass matches on it.         *)

\* Address::Literal(n) and Address::Label(label)
AddrLiteral(n) == [tag |-> "Literal", n |-> n, label |-> ""]
AddrLabel(l) == [tag |-> "Label", n |-> 0, label |-> l]

\* ImmediateValue::{Literal, Label, LowByte, HighByte}
ImmLiteral(n) == [tag |-> "Literal", n |-> n, label |-> ""]
ImmLabel(l) == [tag |-> "Label", n |-> 0, label |-> l]
ImmLowByte(l) == [tag |-> "LowByte", n |-> 0, label |-> l]
ImmHighByte(l) == [tag |-> "HighByte", n |-> 0, label |-> l]

\* the operand of a mode that carries none
NoOperand == [tag |-> "None", n |-> 0, label |-> ""]

\* an AddressingMode value: the variant and what it carries
Mode(variant, operand) == [variant |-> variant, operand |-> operand]

\* the variants that carry an Address
ByteSlotModes == {"IndirectX", "ZeroPage", "IndirectY", "ZeroPageX"}
WordSlotModes == {"Absolute", "AbsoluteY", "AbsoluteX"}
OtherAddressModes == {"ZeroPageY", "Indirect", "Relative"}
BareModes == {"Implied", "Accumulator"}

\* InstructionArg
NoArgs == [kind |-> "NoArgs", n |-> 0, label |-> ""]
ByteArg(n) == [kind |-> "ByteArg", n |-> n, label |-> ""]
ByteLabelArg(l) == [kind |-> "ByteLabelArg", n |-> 0, label |-> l]
ByteLabelLowArg(l) == [kind |-> "ByteLabelLowArg", n |-> 0, label |-> l]
ByteLabelHighArg(l) == [kind |-> "ByteLabelHighArg", n |-> 0, label |-> l]
WordArg(n) == [kind |-> "WordArg", n |-> n, label |-> ""]
WordLabelArg(l) == [kind |-> "WordLabelArg", n |-> 0, label |-> l]

\* AnnotatedLine
AnnotatedLine(a, op, arg) == [addr |-> a, opcode |-> op, arg |-> arg]

\* LineValue and Pragma: one record shape for every variant
NoBytes == <<>>
NoText == <<>>
Value(kind, instr, byte, bytes, address, name) ==
    [kind |-> kind, instr |-> instr, byte |-> byte, bytes |-> bytes,
     address |-> address, name |-> name]
NoInstr == [opcode |-> NoText, addr_mode |-> Mode("Implied", NoOperand)]
Instr(opcode, mode) == [opcode |-> opcode, addr_mode |-> mode]
NoAddress == AddrLiteral(0)
InstructionValue(instr) == Value("Instruction", instr, 0, NoBytes, NoAddress, "")
ByteValue(b) == Value("Byte", NoInstr, b, NoBytes, NoAddress, "")
BytesValue(bs) == Value("Bytes", NoInstr, 0, bs, NoAddress, "")
WordValue(a) == Value("Word", NoInstr, 0, NoBytes, a, "")
OriginValue(a) == Value("Origin", NoInstr, 0, NoBytes, a, "")
DefineValue(name, a) == Value("Define", NoInstr, 0, NoBytes, a, name)
IncludeValue == Value("Include", NoInstr, 0, NoBytes, NoAddress, "")
NoneValue == Value("None", NoInstr, 0, NoBytes, NoAddress, "")

\* ParsedLine
ParsedLine(label, value) == [label |-> label, value |-> value]

\* the value of `line` before the parser has yielded one
NoLine == ParsedLine("", NoneValue)

----------------------------------------------------------------------------
(* How first_pass ends.                                                    *)

\* the loop is still running: first_pass has not ended
Running == [tag |-> "None", msg |-> "", text |-> NoText, label |-> ""]

\* Ok(FirstPassResult { lines, symbol_table })
Ok == [tag |-> "Ok", msg |-> "", text |-> NoText, label |-> ""]

\* ParseError::new(lexer, msg), msg formatted with a mnemonic or a label
Err(msg, text, label) == [tag |-> "Err", msg |-> msg, text |-> text, label |-> label]

\* panic!, todo! and the overflow trap of a build with overflow checks
Panic(msg) == [tag |-> "Panic", msg |-> msg, text |-> NoText, label |-> ""]

----------------------------------------------------------------------------
(* The instruction encoder: the match on the mnemonic and the expansion of *)
(* opcode_c_01 for it.                                                     *)

\* the mnemonics the match at pass_1.rs:192 has an arm for
KnownOpcodes == {ORA, AND, EOR, ADC, STA, LDA, CMP, SBC}

\* the literal each arm hands to opcode_c_01 as $opcode
OpcodeLiteral(lower) ==
    CASE lower = ORA -> 1     \* 0b000_000_01
      [] lower = AND -> 5     \* 0b000_001_01
      [] lower = EOR -> 9     \* 0b000_010_01
      [] lower = ADC -> 13    \* 0b000_011_01
      [] lower = STA -> 17    \* 0b000_100_01
      [] lower = LDA -> 21    \* 0b000_101_01
      [] lower = CMP -> 25    \* 0b000_110_01
      [] lower = SBC -> 29    \* 0b000_111_01

\* the addressing modes the macro has an arm for
LegalModes == ByteSlotModes \cup WordSlotModes \cup {"Immediate"}

\* the bits each arm ors into $line.opcode
ModeBits(variant) ==
    CASE variant = "IndirectX" -> 0    \* 0b000_000_00
      [] variant = "ZeroPage"  -> 4    \* 0b000_001_00
      [] variant = "Immediate" -> 8    \* 0b000_010_00
      [] variant = "Absolute"  -> 12   \* 0b000_011_00
      [] variant = "IndirectY" -> 16   \* 0b000_100_00
      [] variant = "ZeroPageX" -> 20   \* 0b000_101_00
      [] variant = "AbsoluteY" -> 24   \* 0b000_110_00
      [] variant = "AbsoluteX" -> 28   \* 0b000_111_00

\* C2's mutant: every arm adds 1, as if the word arms were copied from a byte arm
C2_OperandWidthAlwaysOne(variant) == 1

\* C4's mutant: the byte arms add 2, as if copied from a word arm
C4_OperandWidthAlwaysTwo(variant) == 2

\* what each arm adds to $addr after the operand: 1 or 2
OperandWidth(variant) == IF variant \in WordSlotModes THEN 2 ELSE 1

\* parser::check_overflow(lexer, n): fails when n does not fit in 8 bits
CheckOverflowFails(n) == n >= U8

\* the ParseError that check_overflow fails with
CheckOverflowError == Err("overflow", NoText, "")

\* C8's mutant: the literal is cast without check_overflow
C8_OperandNeverFails(mode) == FALSE

\* whether translating the operand returns through `?`
OperandFails(mode) ==
    /\ mode.variant \in ByteSlotModes
    /\ mode.operand.tag = "Literal"
    /\ CheckOverflowFails(mode.operand.n)

\* C16's mutant: the low-byte and high-byte selectors of an immediate label
\* are dropped
C16_OperandArgDropsSelector(mode) ==
    LET o == mode.operand IN
    CASE mode.variant \in ByteSlotModes ->
            IF o.tag = "Literal" THEN ByteArg(o.n) ELSE ByteLabelArg(o.label)
      [] mode.variant \in WordSlotModes ->
            IF o.tag = "Literal" THEN WordArg(o.n) ELSE WordLabelArg(o.label)
      [] mode.variant = "Immediate" ->
            IF o.tag = "Literal" THEN ByteArg(o.n) ELSE ByteLabelArg(o.label)

\* the value each arm gives $line.arg
OperandArg(mode) ==
    LET o == mode.operand IN
    CASE mode.variant \in ByteSlotModes ->
            IF o.tag = "Literal" THEN ByteArg(o.n) ELSE ByteLabelArg(o.label)
      [] mode.variant \in WordSlotModes ->
            IF o.tag = "Literal" THEN WordArg(o.n) ELSE WordLabelArg(o.label)
      [] mode.variant = "Immediate" ->
            CASE o.tag = "Literal"  -> ByteArg(o.n)
              [] o.tag = "Label"    -> ByteLabelArg(o.label)
              [] o.tag = "LowByte"  -> ByteLabelLowArg(o.label)
              [] o.tag = "HighByte" -> ByteLabelHighArg(o.label)

\* the opcode byte of the line: the literal, then the mode bits ored in
EncodedOpcode(lower, variant) == BitOr(OpcodeLiteral(lower), ModeBits(variant))

\* C3's mutant: the line is given the address after the first increment
C3_LineAddrAfterIncrement(a) == (a + 1) % U16

\* the address the new AnnotatedLine is given
LineAddr(a) == a

\* C6's mutant: the match on the mode ends in `_ => {}` instead of the error
C6_EncodeIgnoresOtherModes(instr, a, checks) ==
    LET lower == ToLowercase(instr.opcode)
        mode == instr.addr_mode
        a1 == WrapAdd(a, 1)
        w == OperandWidth(mode.variant)
        stop(res, at) == [result |-> res, addr |-> at, pushed |-> FALSE,
                          line |-> AnnotatedLine(LineAddr(a), 0, NoArgs)]
    IN  IF lower \notin KnownOpcodes
            THEN stop(Err("Invalid opcode", instr.opcode, ""), a)
        ELSE IF checks /\ Overflows(a, 1)
            THEN stop(Panic("attempt to add with overflow"), a)
        ELSE IF mode.variant \notin LegalModes
            THEN [result |-> Running, addr |-> a1, pushed |-> TRUE,
                  line |-> AnnotatedLine(LineAddr(a), OpcodeLiteral(lower), NoArgs)]
        ELSE IF OperandFails(mode)
            THEN stop(CheckOverflowError, a1)
        ELSE IF checks /\ Overflows(a1, w)
            THEN stop(Panic("attempt to add with overflow"), a1)
        ELSE [result |-> Running, addr |-> WrapAdd(a1, w), pushed |-> TRUE,
              line |-> AnnotatedLine(LineAddr(a), EncodedOpcode(lower, mode.variant),
                                     OperandArg(mode))]

\* One instruction, from the construction of the line to the point just
\* before lines.push: what first_pass does next (result), the value of addr
\* there, and the line to push when it goes on (pushed).
Encode(instr, a, checks) ==
    LET lower == ToLowercase(instr.opcode)
        mode == instr.addr_mode
        a1 == WrapAdd(a, 1)
        w == OperandWidth(mode.variant)
        stop(res, at) == [result |-> res, addr |-> at, pushed |-> FALSE,
                          line |-> AnnotatedLine(LineAddr(a), 0, NoArgs)]
    IN  IF lower \notin KnownOpcodes
            THEN stop(Err("Invalid opcode", instr.opcode, ""), a)
        ELSE IF checks /\ Overflows(a, 1)
            THEN stop(Panic("attempt to add with overflow"), a)
        ELSE IF mode.variant \notin LegalModes
            THEN stop(Err("Invalid argument for opcode", instr.opcode, ""), a1)
        ELSE IF OperandFails(mode)
            THEN stop(CheckOverflowError, a1)
        ELSE IF checks /\ Overflows(a1, w)
            THEN stop(Panic("attempt to add with overflow"), a1)
        ELSE [result |-> Running, addr |-> WrapAdd(a1, w), pushed |-> TRUE,
              line |-> AnnotatedLine(LineAddr(a), EncodedOpcode(lower, mode.variant),
                                     OperandArg(mode))]

----------------------------------------------------------------------------
(* The symbol table.                                                       *)

\* HashMap::new()
EmptyTable == [k \in {} |-> 0]

\* symbol_table.contains_key(&key)
ContainsKey(table, key) == key \in DOMAIN table

\* C18's mutant: the insert drops the bindings the table held
C18_InsertForgetsOthers(table, key, value) == [k \in {key} |-> value]

\* symbol_table.insert(key, value)
Insert(table, key, value) ==
    [k \in DOMAIN table \cup {key} |-> IF k = key THEN value ELSE table[k]]

\* C5's mutant: add_symbol inserts without looking for the key
C5_AddSymbolOverwrites(table, key, value) ==
    [table |-> Insert(table, key, value), result |-> Running]

\* add_symbol: the table after the call, and whether the call panicked
AddSymbol(table, key, value) ==
    IF ContainsKey(table, key)
        THEN [table |-> table, result |-> Panic("Repeated symbol")]
        ELSE [table |-> Insert(table, key, value), result |-> Running]

----------------------------------------------------------------------------
(* The walk: one action for each way the loop body treats a parsed line.   *)

Init ==
    /\ addr = 0
    /\ lines = <<>>
    /\ symbol_table = EmptyTable
    /\ line = NoLine
    /\ result = Running
    /\ overflow_checks \in BOOLEAN
    /\ origin_shift = 0
    /\ origin_marks = {}
    /\ steps = 0

\* C9's mutant: the loop goes on to the next line after an error
C9_YieldAfterError(l) ==
    /\ line' = l
    /\ steps' = steps + 1
    /\ UNCHANGED overflow_checks

\* parse_line yields the line l: the loop binds it
Yield(l) ==
    /\ result = Running
    /\ line' = l
    /\ steps' = steps + 1
    /\ UNCHANGED overflow_checks

\* C10's mutant: the label is bound and a Byte value of the line is emitted too
C10_LabelLineAlsoEmits(l) ==
    /\ l.label # ""
    /\ Yield(l)
    /\ LET r == AddSymbol(symbol_table, l.label, addr) IN
        /\ symbol_table' = r.table
        /\ result' = r.result
    /\ IF l.value.kind = "Byte"
         THEN /\ lines' = Append(lines, AnnotatedLine(LineAddr(addr), l.value.byte, NoArgs))
              /\ addr' = WrapAdd(addr, 1)
         ELSE UNCHANGED <<addr, lines>>
    /\ UNCHANGED <<origin_shift, origin_marks>>

\* if line.label != "": the label is bound to addr and the value is dropped
LabelLine(l) ==
    /\ l.label # ""
    /\ Yield(l)
    /\ LET r == AddSymbol(symbol_table, l.label, addr) IN
        /\ symbol_table' = r.table
        /\ result' = r.result
    /\ UNCHANGED <<addr, lines, origin_shift, origin_marks>>

\* LineValue::Instruction(instr)
InstructionLine(l) ==
    /\ l.label = ""
    /\ l.value.kind = "Instruction"
    /\ Yield(l)
    /\ LET e == Encode(l.value.instr, addr, overflow_checks) IN
        /\ addr' = e.addr
        /\ lines' = IF e.pushed THEN Append(lines, e.line) ELSE lines
        /\ result' = e.result
    /\ UNCHANGED <<symbol_table, origin_shift, origin_marks>>

\* Pragma::Byte(byte)
BytePragma(l) ==
    /\ l.label = ""
    /\ l.value.kind = "Byte"
    /\ Yield(l)
    /\ lines' = Append(lines, AnnotatedLine(LineAddr(addr), l.value.byte, NoArgs))
    /\ IF overflow_checks /\ Overflows(addr, 1)
         THEN addr' = addr /\ result' = Panic("attempt to add with overflow")
         ELSE addr' = WrapAdd(addr, 1) /\ result' = Running
    /\ UNCHANGED <<symbol_table, origin_shift, origin_marks>>

\* C15's mutant: every byte of the pragma gets the address of the first
RECURSIVE C15_BytesLoopKeepsAddr(_, _, _, _, _)
C15_BytesLoopKeepsAddr(bytes, i, a, ls, checks) ==
    IF i > Len(bytes)
        THEN [addr |-> WrapAdd(a, Len(bytes)), lines |-> ls, result |-> Running]
    ELSE C15_BytesLoopKeepsAddr(bytes, i + 1, a,
            Append(ls, AnnotatedLine(LineAddr(a), bytes[i], NoArgs)), checks)

\* the `for byte in bytes` loop from its i-th turn on: the state it ends in
RECURSIVE BytesLoop(_, _, _, _, _)
BytesLoop(bytes, i, a, ls, checks) ==
    IF i > Len(bytes)
        THEN [addr |-> a, lines |-> ls, result |-> Running]
    ELSE LET pushed == Append(ls, AnnotatedLine(LineAddr(a), bytes[i], NoArgs)) IN
        IF checks /\ Overflows(a, 1)
            THEN [addr |-> a, lines |-> pushed,
                  result |-> Panic("attempt to add with overflow")]
            ELSE BytesLoop(bytes, i + 1, WrapAdd(a, 1), pushed, checks)

\* Pragma::Bytes(bytes)
BytesPragma(l) ==
    /\ l.label = ""
    /\ l.value.kind = "Bytes"
    /\ Yield(l)
    /\ LET r == BytesLoop(l.value.bytes, 1, addr, lines, overflow_checks) IN
        /\ addr' = r.addr
        /\ lines' = r.lines
        /\ result' = r.result
    /\ UNCHANGED <<symbol_table, origin_shift, origin_marks>>

\* C11's mutant: a label the table does not hold resolves to 0
C11_ResolveDefaultsToZero(a, table, msg, name) ==
    IF a.tag = "Literal" THEN [ok |-> TRUE, value |-> a.n, result |-> Running]
    ELSE IF ContainsKey(table, a.label)
        THEN [ok |-> TRUE, value |-> table[a.label], result |-> Running]
        ELSE [ok |-> TRUE, value |-> 0, result |-> Running]

\* the match on an Address that a pragma resolves at once: the value, or
\* the error the lookup returns with
Resolve(a, table, msg, name) ==
    IF a.tag = "Literal" THEN [ok |-> TRUE, value |-> a.n, result |-> Running]
    ELSE IF ContainsKey(table, a.label)
        THEN [ok |-> TRUE, value |-> table[a.label], result |-> Running]
        ELSE [ok |-> FALSE, value |-> 0, result |-> Err(msg, NoText, a.label)]

\* C12's mutant: the high byte is pushed first (big-endian)
C12_LowByteIsHighByte(word) == AsU8(ShiftRight(word, 8))

\* the low byte of the word, pushed first
LowByte(word) == AsU8(word)

\* the high byte of the word, pushed second
HighByte(word) == AsU8(ShiftRight(word, 8))

\* what Pragma::Word does once the word is known: two pushes, two increments
WordPush(word, a, ls, checks) ==
    LET one == Append(ls, AnnotatedLine(LineAddr(a), LowByte(word), NoArgs))
        a1 == WrapAdd(a, 1)
        two == Append(one, AnnotatedLine(LineAddr(a1), HighByte(word), NoArgs))
    IN  IF checks /\ Overflows(a, 1)
            THEN [addr |-> a, lines |-> one,
                  result |-> Panic("attempt to add with overflow")]
        ELSE IF checks /\ Overflows(a1, 1)
            THEN [addr |-> a1, lines |-> two,
                  result |-> Panic("attempt to add with overflow")]
        ELSE [addr |-> WrapAdd(a1, 1), lines |-> two, result |-> Running]

\* Pragma::Word(word)
WordPragma(l) ==
    /\ l.label = ""
    /\ l.value.kind = "Word"
    /\ Yield(l)
    /\ LET w == Resolve(l.value.address, symbol_table,
                        "Setting origin to value of undefined label", "")
           r == WordPush(w.value, addr, lines, overflow_checks)
       IN  IF w.ok
             THEN addr' = r.addr /\ lines' = r.lines /\ result' = r.result
             ELSE addr' = addr /\ lines' = lines /\ result' = w.result
    /\ UNCHANGED <<symbol_table, origin_shift, origin_marks>>

\* C13's mutant: the Origin pragma moves the counter by its address
C13_OriginIsRelative(l) ==
    /\ l.label = ""
    /\ l.value.kind = "Origin"
    /\ Yield(l)
    /\ LET w == Resolve(l.value.address, symbol_table,
                        "Setting origin to value of undefined label", "")
       IN  /\ addr' = IF w.ok THEN WrapAdd(addr, w.value) ELSE addr
           /\ origin_shift' = IF w.ok THEN origin_shift + (WrapAdd(addr, w.value) - addr)
                                      ELSE origin_shift
           /\ origin_marks' = IF w.ok THEN origin_marks \cup {Len(lines)}
                                      ELSE origin_marks
           /\ result' = w.result
    /\ UNCHANGED <<lines, symbol_table>>

\* Pragma::Origin(a)
OriginPragma(l) ==
    /\ l.label = ""
    /\ l.value.kind = "Origin"
    /\ Yield(l)
    /\ LET w == Resolve(l.value.address, symbol_table,
                        "Setting origin to value of undefined label", "")
       IN  /\ addr' = IF w.ok THEN w.value ELSE addr
           /\ origin_shift' = IF w.ok THEN origin_shift + (w.value - addr)
                                      ELSE origin_shift
           /\ origin_marks' = IF w.ok THEN origin_marks \cup {Len(lines)}
                                      ELSE origin_marks
           /\ result' = w.result
    /\ UNCHANGED <<lines, symbol_table>>

\* C14's mutant: the name is bound to the counter, as a label line binds it
C14_DefineBindsCounter(l) ==
    /\ l.label = ""
    /\ l.value.kind = "Define"
    /\ Yield(l)
    /\ LET w == Resolve(l.value.address, symbol_table,
                        "Setting label to value of undefined label", l.value.name)
           r == AddSymbol(symbol_table, l.value.name, addr)
       IN  IF w.ok
             THEN symbol_table' = r.table /\ result' = r.result
             ELSE symbol_table' = symbol_table /\ result' = w.result
    /\ UNCHANGED <<addr, lines, origin_shift, origin_marks>>

\* Pragma::Define(label, addr)
DefinePragma(l) ==
    /\ l.label = ""
    /\ l.value.kind = "Define"
    /\ Yield(l)
    /\ LET w == Resolve(l.value.address, symbol_table,
                        "Setting label to value of undefined label", l.value.name)
           r == AddSymbol(symbol_table, l.value.name, w.value)
       IN  IF w.ok
             THEN symbol_table' = r.table /\ result' = r.result
             ELSE symbol_table' = symbol_table /\ result' = w.result
    /\ UNCHANGED <<addr, lines, origin_shift, origin_marks>>

\* C17's mutant: the Include pragma is skipped like a None line
C17_IncludeSkipped(l) ==
    /\ l.label = ""
    /\ l.value.kind = "Include"
    /\ Yield(l)
    /\ result' = Running
    /\ UNCHANGED <<addr, lines, symbol_table, origin_shift, origin_marks>>

\* Pragma::Include(_) => todo!()
IncludePragma(l) ==
    /\ l.label = ""
    /\ l.value.kind = "Include"
    /\ Yield(l)
    /\ result' = Panic("not yet implemented")
    /\ UNCHANGED <<addr, lines, symbol_table, origin_shift, origin_marks>>

\* LineValue::None => {}
NoneLine(l) ==
    /\ l.label = ""
    /\ l.value.kind = "None"
    /\ Yield(l)
    /\ result' = Running
    /\ UNCHANGED <<addr, lines, symbol_table, origin_shift, origin_marks>>

\* parse_line returns Ok(None): the loop ends and first_pass returns Ok
EndOfInput ==
    /\ result = Running
    /\ result' = Ok
    /\ UNCHANGED <<addr, lines, symbol_table, line, overflow_checks,
                 origin_shift, origin_marks, steps>>

\* parse_line returns Err: the `?` at pass_1.rs:177 returns it
ParseFailure ==
    /\ result = Running
    /\ result' = Err("parse error", NoText, "")
    /\ UNCHANGED <<addr, lines, symbol_table, line, overflow_checks,
                 origin_shift, origin_marks, steps>>

----------------------------------------------------------------------------
(* The inputs of the walker specification.                                 *)

FOO == <<102, 111, 111>>

Names == {"a", "b"}

WalkInstrs ==
    { Instr(LDA, Mode("Immediate", ImmLiteral(42))),
      Instr(STA, Mode("Absolute", AddrLabel("a"))),
      Instr(LDA, Mode("ZeroPage", AddrLiteral(256))),
      Instr(LDA, Mode("Implied", NoOperand)),
      Instr(FOO, Mode("Immediate", ImmLiteral(1))) }

BytesInputs == { [i \in 1..n |-> 16 * i] : n \in 0..MaxBytesLen }

WalkAddresses == { AddrLiteral(4660), AddrLiteral(65535), AddrLabel("a") }

WalkOrigins == { AddrLiteral(0), AddrLiteral(65534), AddrLiteral(65535), AddrLabel("a") }

WalkValues ==
    { InstructionValue(i) : i \in WalkInstrs }
        \cup { ByteValue(42) }
        \cup { BytesValue(bs) : bs \in BytesInputs }
        \cup { WordValue(a) : a \in WalkAddresses }
        \cup { OriginValue(a) : a \in WalkOrigins }
        \cup { DefineValue(n, a) : n \in Names, a \in {AddrLiteral(8192), AddrLabel("a")} }
        \cup { IncludeValue, NoneValue }

LabelledValues ==
    { NoneValue, ByteValue(42), InstructionValue(Instr(FOO, Mode("Immediate", ImmLiteral(1)))) }

WalkLines ==
    { ParsedLine("", v) : v \in WalkValues }
        \cup { ParsedLine(n, v) : n \in Names, v \in LabelledValues }

\* the lines the parser may still yield: those of `input` while the model's
\* bound on the input leaves room, none after
Pending(input, room) == IF room THEN input ELSE {}

WalkPending == Pending(WalkLines, steps < MaxSteps)

Next ==
    \/ \E l \in WalkPending : LabelLine(l)
    \/ \E l \in WalkPending : InstructionLine(l)
    \/ \E l \in WalkPending : BytePragma(l)
    \/ \E l \in WalkPending : BytesPragma(l)
    \/ \E l \in WalkPending : WordPragma(l)
    \/ \E l \in WalkPending : OriginPragma(l)
    \/ \E l \in WalkPending : DefinePragma(l)
    \/ \E l \in WalkPending : IncludePragma(l)
    \/ \E l \in WalkPending : NoneLine(l)
    \/ EndOfInput
    \/ ParseFailure

Spec == Init /\ [][Next]_vars

----------------------------------------------------------------------------
(* The inputs of the encoder specification: an optional Origin or label    *)
(* line, then instructions over every mnemonic, addressing mode and        *)
(* operand shape.                                                          *)

UpperLDA == <<76, 68, 65>>
MixedSTA == <<83, 116, 97>>
JMP == <<106, 109, 112>>

EncMnemonics == KnownOpcodes \cup {UpperLDA, MixedSTA, FOO, JMP}

EncModes ==
    { Mode(v, o) : v \in ByteSlotModes,
                   o \in {AddrLiteral(255), AddrLiteral(256), AddrLabel("a")} }
        \cup { Mode(v, o) : v \in WordSlotModes,
                   o \in {AddrLiteral(0), AddrLiteral(256), AddrLiteral(65535), AddrLabel("a")} }
        \cup { Mode("Immediate", o) :
                   o \in {ImmLiteral(42), ImmLabel("a"), ImmLowByte("a"), ImmHighByte("a")} }
        \cup { Mode(v, AddrLiteral(16)) : v \in OtherAddressModes }
        \cup { Mode(v, NoOperand) : v \in BareModes }

EncInstrLines ==
    { ParsedLine("", InstructionValue(Instr(m, mode))) : m \in EncMnemonics, mode \in EncModes }

EncOriginLines ==
    { ParsedLine("", OriginValue(AddrLiteral(n))) : n \in {65533, 65534, 65535} }

\* a label line that binds the name the label operands use
EncLabelLines == { ParsedLine("a", NoneValue) }

NextEnc ==
    \/ \E l \in Pending(EncOriginLines, steps = 0) : OriginPragma(l)
    \/ \E l \in Pending(EncLabelLines, steps = 0) : LabelLine(l)
    \/ \E l \in Pending(EncInstrLines, Len(lines) < MaxInstrs) : InstructionLine(l)
    \/ EndOfInput

SpecEnc == Init /\ [][NextEnc]_vars

----------------------------------------------------------------------------
(* What the specification says of the encoder, in its own tables.          *)

\* a << k
ShiftLeft(a, k) == a * (2 ^ k)

\* the aaa field of the eight cc=01 mnemonics, 000..111 in the table's order
Aaa(lower) ==
    CASE lower = <<111, 114, 97>>  -> 0   \* ora
      [] lower = <<97, 110, 100>>  -> 1   \* and
      [] lower = <<101, 111, 114>> -> 2   \* eor
      [] lower = <<97, 100, 99>>   -> 3   \* adc
      [] lower = <<115, 116, 97>>  -> 4   \* sta
      [] lower = <<108, 100, 97>>  -> 5   \* lda
      [] lower = <<99, 109, 112>>  -> 6   \* cmp
      [] lower = <<115, 98, 99>>   -> 7   \* sbc

Cc01Mnemonics ==
    { <<111, 114, 97>>, <<97, 110, 100>>, <<101, 111, 114>>, <<97, 100, 99>>,
      <<115, 116, 97>>, <<108, 100, 97>>, <<99, 109, 112>>, <<115, 98, 99>> }

\* the bbb field of the eight modes, 000..111 in the table's order
Bbb(variant) ==
    CASE variant = "IndirectX" -> 0
      [] variant = "ZeroPage"  -> 1
      [] variant = "Immediate" -> 2
      [] variant = "Absolute"  -> 3
      [] variant = "IndirectY" -> 4
      [] variant = "ZeroPageX" -> 5
      [] variant = "AbsoluteY" -> 6
      [] variant = "AbsoluteX" -> 7

TableModes ==
    {"IndirectX", "ZeroPage", "Immediate", "Absolute",
     "IndirectY", "ZeroPageX", "AbsoluteY", "AbsoluteX"}

\* the instruction size of the mode table
TableSize(variant) ==
    IF variant \in {"Absolute", "AbsoluteY", "AbsoluteX"} THEN 3 ELSE 2

ByteKinds == {"ByteArg", "ByteLabelArg", "ByteLabelLowArg", "ByteLabelHighArg"}
WordKinds == {"WordArg", "WordLabelArg"}

\* the byte-size of an annotated line
ByteSize(al) ==
    IF al.arg.kind = "NoArgs" THEN 1
    ELSE IF al.arg.kind \in ByteKinds THEN 2 ELSE 3

\* the sum of the byte-sizes of ls[from..to]
RECURSIVE SizeSum(_, _, _)
SizeSum(ls, from, to) ==
    IF from > to THEN 0 ELSE ByteSize(ls[from]) + SizeSum(ls, from + 1, to)

\* two texts that differ at most in the case of their ASCII letters
SameIgnoringCase(s, t) ==
    /\ Len(s) = Len(t)
    /\ \A i \in 1..Len(s) :
        \/ s[i] = t[i]
        \/ s[i] \in 65..90 /\ t[i] = s[i] + 32
        \/ t[i] \in 65..90 /\ s[i] = t[i] + 32

\* whether the text is one of the eight mnemonics, whatever its case
IsCc01(text) == \E m \in Cc01Mnemonics : SameIgnoringCase(text, m)

\* the one of the eight mnemonics the text spells
Cc01Of(text) == CHOOSE m \in Cc01Mnemonics : SameIgnoringCase(text, m)

\* this step is a turn of the loop, on the line now in line'
Turn == steps' = steps + 1

\* this step dispatches the instruction now in line'
InstrTurn == Turn /\ line'.label = "" /\ line'.value.kind = "Instruction"

\* the last line consumed was an instruction and the pass went on after it
InstrEmitted ==
    /\ line.label = ""
    /\ line.value.kind = "Instruction"
    /\ result.tag \in {"None", "Ok"}

\* the literal of an operand that the mode puts in a one-byte slot is out of range
OperandTooWide(mode) ==
    /\ mode.variant \in {"IndirectX", "ZeroPage", "IndirectY", "ZeroPageX"}
    /\ mode.operand.tag = "Literal"
    /\ mode.operand.n > 255

----------------------------------------------------------------------------
(* C1 *)

\* C1: the annotated line first_pass emits for a cc=01 mnemonic M in a legal
\* mode V has opcode (aaa(M) << 5) | (bbb(V) << 2) | 01.  The code puts the
\* aaa bits of its literals in the bbb field: lda #imm encodes as 0x1D, not 0xA9.
C1_OpcodeIsAaaBbb01 ==
    InstrEmitted =>
        LET instr == line.value.instr
            m == Cc01Of(instr.opcode)
        IN  lines[Len(lines)].opcode
                = BitOr(BitOr(ShiftLeft(Aaa(m), 5), ShiftLeft(Bbb(instr.addr_mode.variant), 2)), 1)

----------------------------------------------------------------------------
(* C2 *)

\* the instruction in line' has one of the eight mnemonics, a mode of the
\* table and an operand the encoder translates
EncodableTurn ==
    /\ InstrTurn
    /\ IsCc01(line'.value.instr.opcode)
    /\ line'.value.instr.addr_mode.variant \in TableModes
    /\ ~OperandTooWide(line'.value.instr.addr_mode)

\* the placeholder of the appended line has the width the mode table gives
PlaceholderFits(al, variant) ==
    IF TableSize(variant) = 3 THEN al.arg.kind \in WordKinds ELSE al.arg.kind \in ByteKinds

\* exactly one line is appended, with the placeholder of the mode's width
OneLineAppended ==
    /\ Len(lines') = Len(lines) + 1
    /\ SubSeq(lines', 1, Len(lines)) = lines
    /\ PlaceholderFits(lines'[Len(lines')], line'.value.instr.addr_mode.variant)

\* C2 as stated: every cc=01 instruction in a legal mode appends exactly one
\* line and leaves the counter at counter + size, size 2 or 3 by the mode table.
C2_AdvancesBySize_Original ==
    [][EncodableTurn =>
        /\ OneLineAppended
        /\ addr' = addr + TableSize(line'.value.instr.addr_mode.variant)]_vars

\* C2 (amended): every cc=01 instruction in a legal mode appends exactly one
\* line and advances the counter by the size of the mode table while counter +
\* size stays within 0xFFFF; beyond it a build without overflow checks appends
\* the line and leaves the counter at (counter + size) mod 0x10000, and a build
\* with overflow checks panics on the increment and appends nothing.
C2_AdvancesBySize ==
    [][EncodableTurn =>
        LET size == TableSize(line'.value.instr.addr_mode.variant) IN
        IF addr + size <= 65535
            THEN OneLineAppended /\ addr' = addr + size /\ result' = Running
        ELSE IF overflow_checks
            THEN lines' = lines /\ result'.tag = "Panic"
            ELSE OneLineAppended /\ addr' = (addr + size) % 65536 /\ result' = Running]_vars

\* C2's case: sta absolute,X at counter 0 has appended one word line, counter 3
C2_Witness ==
    /\ InstrEmitted
    /\ line.value.instr.opcode = <<115, 116, 97>>
    /\ line.value.instr.addr_mode.variant = "AbsoluteX"
    /\ Len(lines) = 1
    /\ lines[1].arg.kind = "WordArg"
    /\ addr = 3

----------------------------------------------------------------------------
(* C3 *)

\* C3: a step keeps the lines already in the list as they are, in their
\* order, and gives each line it appends the value the location counter has
\* when that line is emitted: the counter before the step, advanced (in u16)
\* by the sizes of the lines the same step emitted before it.  Origin jumps
\* and label bindings fall under it as steps that append nothing.
C3_AddrIsCounterAtEmission ==
    [][/\ Len(lines') >= Len(lines)
       /\ SubSeq(lines', 1, Len(lines)) = lines
       /\ \A i \in (Len(lines) + 1)..Len(lines') :
            lines'[i].addr = (addr + SizeSum(lines', Len(lines) + 1, i - 1)) % 65536]_vars

\* C3's case: a line emitted at 0, an Origin jump, a line emitted at 0xFFFF
C3_Witness ==
    /\ Len(lines) = 2
    /\ lines[1].addr = 0
    /\ lines[2].addr = 65535
    /\ origin_shift = 65534

----------------------------------------------------------------------------
(* C4 *)

\* C4 as stated: for an accepted input the byte-sizes of all annotated lines
\* sum to the final counter minus the initial origin 0, the jumps of the
\* Origin pragmas taken out; with no Origin the counter is that sum.
C4_SizesSumToCounter_Original ==
    result.tag = "Ok" => addr = SizeSum(lines, 1, Len(lines)) + origin_shift

\* C4 (amended): the equality holds in the counter's 16-bit arithmetic, that
\* is modulo 0x10000, and exactly in a build with overflow checks, which
\* accepts no input that moves the counter past 0xFFFF.
C4_SizesSumToCounter ==
    result.tag = "Ok" =>
        /\ addr = (SizeSum(lines, 1, Len(lines)) + origin_shift) % 65536
        /\ overflow_checks => addr = SizeSum(lines, 1, Len(lines)) + origin_shift

\* C4's case: an accepted input whose emissions took the counter past 0xFFFF
C4_Witness ==
    /\ result.tag = "Ok"
    /\ Len(lines) >= 2
    /\ SizeSum(lines, 1, Len(lines)) + origin_shift >= 65536

----------------------------------------------------------------------------
(* C5 *)

\* the line in line' names a symbol the table already holds
NamesBoundSymbol ==
    /\ Turn
    /\ \/ line'.label # "" /\ line'.label \in DOMAIN symbol_table
       \/ /\ line'.label = ""
          /\ line'.value.kind = "Define"
          /\ line'.value.name \in DOMAIN symbol_table

\* the Define in line' takes its value from a label the table does not hold
DefineFromUnbound ==
    /\ line'.label = ""
    /\ line'.value.kind = "Define"
    /\ line'.value.address.tag = "Label"
    /\ line'.value.address.label \notin DOMAIN symbol_table

\* no binding is changed or removed by the step
BindingsKept ==
    \A k \in DOMAIN symbol_table :
        k \in DOMAIN symbol_table' /\ symbol_table'[k] = symbol_table[k]

\* first_pass ends on the duplicate-label error (the panic of add_symbol)
DuplicateLabelError == result'.tag = "Panic" /\ result'.msg = "Repeated symbol"

\* C5 as stated: a label line or a Define that names an already bound symbol
\* makes the pass fail with the duplicate-label error, emit nothing and keep
\* the earlier binding; no step ever changes a binding.
C5_DuplicateIsFatal_Original ==
    [][/\ BindingsKept
       /\ NamesBoundSymbol =>
            DuplicateLabelError /\ symbol_table' = symbol_table /\ lines' = lines]_vars

\* C5 (amended): as stated, except that a Define whose address is a label
\* not yet bound fails on that lookup, which comes first, with the
\* undefined-label error; there too nothing is emitted and the earlier
\* binding is kept.
C5_DuplicateIsFatal ==
    [][/\ BindingsKept
       /\ NamesBoundSymbol =>
            /\ symbol_table' = symbol_table
            /\ lines' = lines
            /\ IF DefineFromUnbound
                 THEN result' = Err("Setting label to value of undefined label", <<>>,
                                    line'.value.address.label)
                 ELSE DuplicateLabelError]_vars

\* C5's case: `a` bound by a label line at 0, then Define a: the pass has
\* panicked and `a` still maps to 0
C5_Witness ==
    /\ result.tag = "Panic"
    /\ result.msg = "Repeated symbol"
    /\ line.label = ""
    /\ line.value.kind = "Define"
    /\ line.value.name = "a"
    /\ "a" \in DOMAIN symbol_table
    /\ symbol_table["a"] = 0
    /\ line.value.address.n = 8192

----------------------------------------------------------------------------
(* C6 *)

\* the instruction in line' has one of the eight mnemonics and a mode
\* outside the table
IllegalModeTurn ==
    /\ InstrTurn
    /\ IsCc01(line'.value.instr.opcode)
    /\ line'.value.instr.addr_mode.variant
         \in {"Implied", "Accumulator", "ZeroPageY", "Indirect", "Relative"}

\* C6 as stated: a cc=01 instruction in a mode outside the bbb table is
\* rejected with "Invalid argument for opcode" carrying the mnemonic as
\* written, and no annotated line is produced for it.
C6_IllegalModeRejected_Original ==
    [][IllegalModeTurn =>
        /\ result' = Err("Invalid argument for opcode", line'.value.instr.opcode, "")
        /\ lines' = lines]_vars

\* C6 (amended): as stated, except at counter 0xFFFF in a build with
\* overflow checks, where the increment before the match on the mode panics
\* first; in every case the pass ends without a result and without a line
\* for the instruction.
C6_IllegalModeRejected ==
    [][IllegalModeTurn =>
        /\ lines' = lines
        /\ IF overflow_checks /\ addr = 65535
             THEN result'.tag = "Panic"
             ELSE result' = Err("Invalid argument for opcode",
                                line'.value.instr.opcode, "")]_vars

\* C6's case: LDA in zero-page,Y was rejected with the error carrying "LDA"
C6_Witness ==
    /\ result = Err("Invalid argument for opcode", <<76, 68, 65>>, "")
    /\ line.value.instr.addr_mode.variant = "ZeroPageY"
    /\ lines = <<>>

----------------------------------------------------------------------------
(* C7 *)

\* C7: an instruction the walk dispatches whose mnemonic is none of the
\* eight, compared without regard to case, ends the pass with "Invalid
\* opcode '<mnemonic as written>'" whatever its mode, with nothing emitted
\* and the counter untouched; a mnemonic that is one of the eight in any
\* case is not rejected so.
C7_UnknownMnemonicRejected ==
    [][InstrTurn =>
        IF IsCc01(line'.value.instr.opcode)
            THEN result'.msg # "Invalid opcode"
            ELSE /\ result' = Err("Invalid opcode", line'.value.instr.opcode, "")
                 /\ lines' = lines
                 /\ addr' = addr]_vars

\* C7's case: jmp in absolute mode was rejected as an invalid opcode
C7_Witness ==
    /\ result = Err("Invalid opcode", <<106, 109, 112>>, "")
    /\ line.value.instr.addr_mode.variant = "Absolute"
    /\ lines = <<>>

----------------------------------------------------------------------------
(* C8 *)

\* the instruction in line' has one of the eight mnemonics and a literal
\* Address in a one-byte or two-byte slot
LiteralSlotTurn ==
    /\ InstrTurn
    /\ IsCc01(line'.value.instr.opcode)
    /\ line'.value.instr.addr_mode.variant \in TableModes \ {"Immediate"}
    /\ line'.value.instr.addr_mode.operand.tag = "Literal"

\* the step appended one line whose placeholder is arg
AppendedWith(arg) ==
    /\ Len(lines') = Len(lines) + 1
    /\ lines'[Len(lines')].arg = arg

\* what C8 says of the literal n in the mode's slot
LiteralSlotOutcome(variant, n) ==
    IF TableSize(variant) = 3
        THEN AppendedWith([kind |-> "WordArg", n |-> n, label |-> ""])
    ELSE IF n <= 255
        THEN AppendedWith([kind |-> "ByteArg", n |-> n, label |-> ""])
        ELSE result' = Err("overflow", <<>>, "") /\ lines' = lines

\* C8 as stated: a literal in a one-byte slot becomes the byte literal n if
\* n <= 0xFF and fails with the overflow error, emitting nothing, if n > 0xFF;
\* a literal in a two-byte slot is accepted unchanged as a word literal.
C8_LiteralRangeChecked_Original ==
    [][LiteralSlotTurn =>
        LiteralSlotOutcome(line'.value.instr.addr_mode.variant,
                           line'.value.instr.addr_mode.operand.n)]_vars

\* the increments of the instruction in line' trap before its outcome: a
\* build with overflow checks, and the counter leaves 0xFFFF before the
\* range check (at 0xFFFF) or before the push (counter + size > 0xFFFF)
TrapsFirst(variant, n) ==
    /\ overflow_checks
    /\ IF TableSize(variant) = 2 /\ n > 255
         THEN addr = 65535
         ELSE addr + TableSize(variant) > 65535

\* C8 (amended): as stated, except where the counter increment traps first
\* in a build with overflow checks; the pass then panics and emits nothing.
C8_LiteralRangeChecked ==
    [][LiteralSlotTurn =>
        LET variant == line'.value.instr.addr_mode.variant
            n == line'.value.instr.addr_mode.operand.n
        IN  IF TrapsFirst(variant, n)
                THEN result'.tag = "Panic" /\ lines' = lines
                ELSE LiteralSlotOutcome(variant, n)]_vars

\* C8's case: the literal 0x100 in the indirect-Y slot ended the pass with
\* the overflow error and no line
C8_Witness ==
    /\ result = Err("overflow", <<>>, "")
    /\ line.value.instr.addr_mode.variant = "IndirectY"
    /\ line.value.instr.addr_mode.operand.n = 256
    /\ lines = <<>>

----------------------------------------------------------------------------
(* C9 *)

\* first_pass has ended on an error: a returned ParseError or a panic
Failed == result.tag \in {"Err", "Panic"}

\* the line l raises one of the fatal conditions in the current state
RaisesFatal(l) ==
    IF l.label # "" THEN l.label \in DOMAIN symbol_table
    ELSE \/ /\ l.value.kind = "Instruction"
            /\ \/ ~IsCc01(l.value.instr.opcode)
               \/ l.value.instr.addr_mode.variant \notin TableModes
               \/ OperandTooWide(l.value.instr.addr_mode)
         \/ /\ l.value.kind \in {"Word", "Origin", "Define"}
            /\ l.value.address.tag = "Label"
            /\ l.value.address.label \notin DOMAIN symbol_table
         \/ l.value.kind = "Define" /\ l.value.name \in DOMAIN symbol_table
         \/ l.value.kind = "Include"

\* C9: the line that raises a fatal condition ends the pass on an error (a
\* returned ParseError, or a panic for a duplicate label and for Include);
\* once the pass has failed nothing changes any more: no line is consumed,
\* the counter, the table and the lines stay, and no Ok result ever follows.
C9_FirstErrorEndsPass ==
    [][/\ Failed => UNCHANGED vars
       /\ (Turn /\ RaisesFatal(line')) => result'.tag \in {"Err", "Panic"}
       /\ result'.tag = "Ok" => result.tag \in {"None", "Ok"}]_vars

\* C9's case: the pass failed on its second line, with a line emitted
\* before and room for more lines after
C9_Witness ==
    /\ result.tag = "Err"
    /\ steps = 2
    /\ steps < MaxSteps
    /\ Len(lines) = 1

----------------------------------------------------------------------------
(* C10 *)

\* C10: a line with a non-empty label leaves the counter and the annotated
\* lines as they are, whatever its value, and binds the label to the current
\* counter; when the label is bound already the table is left alone too (C5).
C10_LabelLineOnlyBinds ==
    [][(Turn /\ line'.label # "") =>
        /\ addr' = addr
        /\ lines' = lines
        /\ IF line'.label \in DOMAIN symbol_table
             THEN symbol_table' = symbol_table
             ELSE /\ DOMAIN symbol_table' = DOMAIN symbol_table \cup {line'.label}
                  /\ symbol_table'[line'.label] = addr
                  /\ BindingsKept
                  /\ result' = Running]_vars

\* C10's case: `a: foo #1` at counter 0xFFFF bound a and emitted nothing,
\* and the pass goes on although foo is no mnemonic
C10_Witness ==
    /\ line.label = "a"
    /\ line.value.kind = "Instruction"
    /\ result.tag = "None"
    /\ lines = <<>>
    /\ addr = 65535
    /\ "a" \in DOMAIN symbol_table
    /\ symbol_table["a"] = 65535

----------------------------------------------------------------------------
(* C11 *)

\* the parser yields a Word, Origin or Define pragma whose address is a label
LabelPragmaTurn ==
    /\ Turn
    /\ line'.label = ""
    /\ line'.value.kind \in {"Word", "Origin", "Define"}
    /\ line'.value.address.tag = "Label"

\* the pass returns the error of a lookup that found no binding for the label
UndefinedLabelError ==
    /\ result'.tag = "Err"
    /\ result'.msg \in {"Setting origin to value of undefined label",
                        "Setting label to value of undefined label"}
    /\ result'.label = line'.value.address.label

\* the pragma changed nothing but the line the loop holds
PragmaWithoutEffect ==
    /\ addr' = addr
    /\ lines' = lines
    /\ symbol_table' = symbol_table

\* C11 as stated: the pragma succeeds if and only if its label is in the
\* table when it is looked up; otherwise the pass fails with the
\* undefined-label error and the pragma has no effect.
C11_LabelMustBeBound_Original ==
    [][LabelPragmaTurn =>
        IF line'.value.address.label \in DOMAIN symbol_table
            THEN result' = Running
            ELSE UndefinedLabelError /\ PragmaWithoutEffect]_vars

\* C11 (amended): the pass fails with the undefined-label error, the pragma
\* without effect, if and only if the label is not in the table at the
\* lookup. With the label bound the pragma succeeds, but for a Define whose
\* own name is bound already (the duplicate-label panic) and for a Word that
\* moves the counter past 0xFFFF in a build with overflow checks (the
\* overflow panic).
C11_LabelMustBeBound ==
    [][LabelPragmaTurn =>
        IF line'.value.address.label \notin DOMAIN symbol_table
            THEN UndefinedLabelError /\ PragmaWithoutEffect
        ELSE IF line'.value.kind = "Define" /\ line'.value.name \in DOMAIN symbol_table
            THEN DuplicateLabelError /\ PragmaWithoutEffect
        ELSE IF line'.value.kind = "Word" /\ overflow_checks /\ addr + 2 >= U16
            THEN /\ result' = Panic("attempt to add with overflow")
                 /\ symbol_table' = symbol_table
        ELSE result' = Running]_vars

\* C11's case: a Word pragma named the label a while only b was bound, and
\* the pass ended on the undefined-label error
C11_Witness ==
    /\ line.label = ""
    /\ line.value.kind = "Word"
    /\ line.value.address.tag = "Label"
    /\ line.value.address.label = "a"
    /\ "b" \in DOMAIN symbol_table
    /\ "a" \notin DOMAIN symbol_table
    /\ result = Err("Setting origin to value of undefined label", NoText, "a")

----------------------------------------------------------------------------
(* C12 *)

\* the address is a literal or a label the table holds
Resolvable(a) == a.tag = "Literal" \/ a.label \in DOMAIN symbol_table

\* the 16-bit value the address stands for
Resolved(a) == IF a.tag = "Literal" THEN a.n ELSE symbol_table[a.label]

\* the parser yields a Word pragma whose address resolves
WordTurn ==
    /\ Turn
    /\ line'.label = ""
    /\ line'.value.kind = "Word"
    /\ Resolvable(line'.value.address)

\* the two lines of the word w, little-endian, at the addresses c1 and c2
WordLines(w, c1, c2) ==
    << AnnotatedLine(c1, w % 256, NoArgs), AnnotatedLine(c2, w \div 256, NoArgs) >>

\* C12 as stated: a Word pragma that resolves to w at counter c appends the
\* lines {c, w mod 256} and {c+1, w div 256}, leaves the counter at c+2 and
\* the symbol table unchanged.
C12_WordIsLittleEndian_Original ==
    [][WordTurn =>
        /\ lines' = lines \o WordLines(Resolved(line'.value.address), addr, addr + 1)
        /\ addr' = addr + 2
        /\ symbol_table' = symbol_table]_vars

\* C12 (amended): as stated while c+2 <= 0xFFFF. Past that a build without
\* overflow checks wraps (second line at (c+1) mod 0x10000, counter at
\* (c+2) mod 0x10000) and a build with overflow checks panics, the low byte
\* pushed at c and the pass without a result.
C12_WordIsLittleEndian ==
    [][WordTurn =>
        LET w == Resolved(line'.value.address) IN
        /\ symbol_table' = symbol_table
        /\ IF addr + 2 < U16
             THEN /\ lines' = lines \o WordLines(w, addr, addr + 1)
                  /\ addr' = addr + 2
                  /\ result' = Running
           ELSE IF overflow_checks
             THEN /\ result' = Panic("attempt to add with overflow")
                  /\ Len(lines') > Len(lines)
                  /\ SubSeq(lines', 1, Len(lines) + 1)
                        = Append(lines, AnnotatedLine(addr, w % 256, NoArgs))
           ELSE /\ lines' = lines \o WordLines(w, addr, (addr + 1) % U16)
                /\ addr' = (addr + 2) % U16
                /\ result' = Running]_vars

\* C12's case: `.define a 0x2000` then a Word pragma naming a emitted the
\* bytes 0x00 and 0x20 at 0 and 1
C12_Witness ==
    /\ line.label = ""
    /\ line.value.kind = "Word"
    /\ line.value.address = AddrLabel("a")
    /\ "a" \in DOMAIN symbol_table
    /\ symbol_table["a"] = 8192
    /\ lines = WordLines(8192, 0, 1)
    /\ lines[2].opcode = 32
    /\ addr = 2
    /\ result = Running

----------------------------------------------------------------------------
(* C13 *)

\* the parser yields an Origin pragma whose address resolves
OriginTurn ==
    /\ Turn
    /\ line'.label = ""
    /\ line'.value.kind = "Origin"
    /\ Resolvable(line'.value.address)

\* the line consumed last was an Origin pragma that set the counter
AfterOrigin ==
    /\ line.label = ""
    /\ line.value.kind = "Origin"
    /\ result = Running

\* C13: an Origin pragma whose address resolves sets the counter to that
\* value, forward or backward, and changes nothing else: no line is appended
\* or altered and the symbol table stays; the line emitted next, right after
\* the pragma or after lines that emit nothing, has the new counter as addr.
C13_OriginOnlyMovesCounter ==
    [][/\ OriginTurn =>
            /\ addr' = Resolved(line'.value.address)
            /\ lines' = lines
            /\ symbol_table' = symbol_table
            /\ result' = Running
       /\ (AfterOrigin /\ Len(lines') > Len(lines)) =>
            lines'[Len(lines) + 1].addr = Resolved(line.value.address)
       /\ (Len(lines) \in origin_marks /\ Len(lines') > Len(lines)) =>
            lines'[Len(lines) + 1].addr = addr]_vars

\* C13's case: a byte at 0, an Origin back to 0, and the next byte emitted
\* at 0 again, the first line as it was
C13_Witness ==
    /\ Len(lines) = 2
    /\ lines[1] = AnnotatedLine(0, 42, NoArgs)
    /\ lines[2].addr = 0
    /\ origin_marks = {1}
    /\ origin_shift = -1
    /\ addr = 1

----------------------------------------------------------------------------
(* C14 *)

\* the parser yields a Define pragma of an unbound name whose address resolves
DefineTurn ==
    /\ Turn
    /\ line'.label = ""
    /\ line'.value.kind = "Define"
    /\ line'.value.name \notin DOMAIN symbol_table
    /\ Resolvable(line'.value.address)

\* the line consumed last was a Define pragma that bound its name
AfterDefine ==
    /\ line.label = ""
    /\ line.value.kind = "Define"
    /\ result = Running

\* C14: a Define pragma of an unbound name binds the name to the value its
\* address resolves to (the literal, or the value the bound label has when
\* the pragma is processed) and changes neither the counter nor the lines;
\* the binding is a copy: no later line changes it, an Origin included.
C14_DefineBindsResolvedValue ==
    [][/\ DefineTurn =>
            /\ DOMAIN symbol_table' = DOMAIN symbol_table \cup {line'.value.name}
            /\ symbol_table'[line'.value.name] = Resolved(line'.value.address)
            /\ BindingsKept
            /\ addr' = addr
            /\ lines' = lines
            /\ result' = Running
       /\ AfterDefine =>
            /\ line.value.name \in DOMAIN symbol_table'
            /\ symbol_table'[line.value.name] = symbol_table[line.value.name]]_vars

\* C14's case: a bound at counter 0xFFFF, then `.define b a` bound b to
\* 0xFFFF too, the counter and the lines as they were
C14_Witness ==
    /\ line.label = ""
    /\ line.value.kind = "Define"
    /\ line.value.name = "b"
    /\ line.value.address = AddrLabel("a")
    /\ DOMAIN symbol_table = {"a", "b"}
    /\ symbol_table["a"] = 65535
    /\ symbol_table["b"] = 65535
    /\ addr = 65535
    /\ lines = <<>>
    /\ result = Running

----------------------------------------------------------------------------
(* C15 *)

\* the bytes a Byte pragma, a Bytes pragma or a None line asks to emit
DataBytes(v) ==
    IF v.kind = "Byte" THEN <<v.byte>>
    ELSE IF v.kind = "Bytes" THEN v.bytes
    ELSE <<>>

\* the parser yields a Byte pragma, a Bytes pragma or a None line
DataTurn ==
    /\ Turn
    /\ line'.label = ""
    /\ line'.value.kind \in {"Byte", "Bytes", "None"}

\* one NoArgs line for each of the first n bytes, the i-th at c + i, as an
\* exact integer or wrapped to 16 bits
DataLines(bs, n, c, wrapped) ==
    [i \in 1..n |->
        AnnotatedLine(IF wrapped THEN (c + i - 1) % U16 ELSE c + i - 1, bs[i], NoArgs)]

\* C15 as stated: Byte(b) at counter c appends {c, b, NoArgs} and leaves the
\* counter at c+1; Bytes(bs) appends one line for each byte in order, the
\* i-th (from 0) at c+i, and leaves the counter at c+len(bs); an empty Bytes
\* and a None line change neither the lines nor the counter.
C15_DataBytesInOrder_Original ==
    [][DataTurn =>
        LET bs == DataBytes(line'.value) IN
        /\ lines' = lines \o DataLines(bs, Len(bs), addr, FALSE)
        /\ addr' = addr + Len(bs)]_vars

\* C15 (amended): as stated while c + len <= 0xFFFF. Past that a build
\* without overflow checks wraps (the i-th line at (c+i) mod 0x10000, the
\* counter at (c+len) mod 0x10000) and a build with overflow checks panics
\* on the increment that passes 0xFFFF, the bytes up to the one at 0xFFFF
\* pushed and the pass without a result.
C15_DataBytesInOrder ==
    [][DataTurn =>
        LET bs == DataBytes(line'.value) IN
        /\ symbol_table' = symbol_table
        /\ IF addr + Len(bs) < U16
             THEN /\ lines' = lines \o DataLines(bs, Len(bs), addr, FALSE)
                  /\ addr' = addr + Len(bs)
                  /\ result' = Running
           ELSE IF overflow_checks
             THEN /\ lines' = lines \o DataLines(bs, U16 - addr, addr, FALSE)
                  /\ result' = Panic("attempt to add with overflow")
           ELSE /\ lines' = lines \o DataLines(bs, Len(bs), addr, TRUE)
                /\ addr' = (addr + Len(bs)) % U16
                /\ result' = Running]_vars

\* C15's case: a byte at 0, then a Bytes pragma of two bytes emitted at 1
\* and 2 in the order of the pragma
C15_Witness ==
    /\ line.label = ""
    /\ line.value.kind = "Bytes"
    /\ line.value.bytes = <<16, 32>>
    /\ lines = << AnnotatedLine(0, 42, NoArgs),
                  AnnotatedLine(1, 16, NoArgs),
                  AnnotatedLine(2, 32, NoArgs) >>
    /\ addr = 3
    /\ result = Running

----------------------------------------------------------------------------
(* C16 *)

\* the parser yields a cc=01 instruction in a mode of the table whose
\* operand is an immediate or names a label
DeferredTurn ==
    /\ InstrTurn
    /\ IsCc01(line'.value.instr.opcode)
    /\ line'.value.instr.addr_mode.variant \in TableModes
    /\ \/ line'.value.instr.addr_mode.variant = "Immediate"
       \/ line'.value.instr.addr_mode.operand.tag = "Label"

\* the placeholder the operand is to leave in the annotated line
Placeholder(mode) ==
    LET o == mode.operand IN
    IF mode.variant = "Immediate"
        THEN CASE o.tag = "Literal"  -> ByteArg(o.n)
               [] o.tag = "Label"    -> ByteLabelArg(o.label)
               [] o.tag = "LowByte"  -> ByteLabelLowArg(o.label)
               [] o.tag = "HighByte" -> ByteLabelHighArg(o.label)
    ELSE IF TableSize(mode.variant) = 3 THEN WordLabelArg(o.label)
    ELSE ByteLabelArg(o.label)

\* C16 as stated: an instruction whose operand names a label is accepted
\* whether or not the label is bound, the table is left alone, and the line
\* carries the placeholder of the operand with the label name unchanged.
C16_LabelOperandsDeferred_Original ==
    [][DeferredTurn =>
        /\ AppendedWith(Placeholder(line'.value.instr.addr_mode))
        /\ result' = Running
        /\ symbol_table' = symbol_table]_vars

\* C16 (amended): as stated, whatever the table holds, but for an instruction
\* that moves the counter past 0xFFFF in a build with overflow checks, which
\* panics on the overflow and emits nothing.
C16_LabelOperandsDeferred ==
    [][DeferredTurn =>
        /\ symbol_table' = symbol_table
        /\ IF overflow_checks
                /\ addr + TableSize(line'.value.instr.addr_mode.variant) >= U16
             THEN /\ result' = Panic("attempt to add with overflow")
                  /\ lines' = lines
             ELSE /\ AppendedWith(Placeholder(line'.value.instr.addr_mode))
                  /\ result' = Running]_vars

\* C16's case: `sta #>a` was accepted with a unbound, and its line carries
\* the high-byte placeholder of a
C16_Witness ==
    /\ InstrEmitted
    /\ line.value.instr.addr_mode = Mode("Immediate", ImmHighByte("a"))
    /\ symbol_table = EmptyTable
    /\ Len(lines) = 1
    /\ lines[1].arg = ByteLabelHighArg("a")

----------------------------------------------------------------------------
(* C17 *)

\* the parser yields an Include pragma
IncludeTurn ==
    /\ Turn
    /\ line'.label = ""
    /\ line'.value.kind = "Include"

\* the line consumed last was an Include pragma
AfterInclude == line.label = "" /\ line.value.kind = "Include"

\* C17: an Include pragma is not processed: the pass rejects it as a pragma
\* that is not implemented yet (the panic of todo!()), emits no line, binds
\* no symbol and moves no counter, and yields no result afterwards.
C17_IncludeRejected ==
    [][/\ IncludeTurn =>
            /\ result' = Panic("not yet implemented")
            /\ lines' = lines
            /\ symbol_table' = symbol_table
            /\ addr' = addr
       /\ AfterInclude => (result'.tag = "Panic" /\ UNCHANGED vars)]_vars

\* C17's case: an Include pragma after a label line and a byte ended the
\* pass, the byte and the binding as they were before it
C17_Witness ==
    /\ AfterInclude
    /\ result = Panic("not yet implemented")
    /\ lines = <<AnnotatedLine(0, 42, NoArgs)>>
    /\ DOMAIN symbol_table = {"a"}
    /\ steps = 3

----------------------------------------------------------------------------
(* C18 *)

\* the parser yields a line that is neither a label line nor a Define or
\* Include pragma
PlainTurn ==
    /\ Turn
    /\ line'.label = ""
    /\ line'.value.kind \in {"Instruction", "Byte", "Bytes", "Word", "Origin", "None"}

\* the parser yields a label line or a Define pragma
BindingTurn ==
    /\ Turn
    /\ line'.label # "" \/ line'.value.kind = "Define"

\* C18: the symbol table only grows, and only through label lines and Define
\* pragmas, one name at a time: every bound name keeps the value it was
\* first given, whatever follows (an Origin jump included), and Instruction,
\* Byte, Bytes, Word, Origin and None lines leave the table exactly as it was.
C18_TableOnlyGrows ==
    [][/\ BindingsKept
       /\ symbol_table' # symbol_table =>
            /\ BindingTurn
            /\ Cardinality(DOMAIN symbol_table') = Cardinality(DOMAIN symbol_table) + 1
       /\ PlainTurn => symbol_table' = symbol_table]_vars

\* C18's case: a bound at 0, then an Origin jump to 0xFFFF and a byte
\* emitted there, a still bound to 0 and nothing else bound
C18_Witness ==
    /\ DOMAIN symbol_table = {"a"}
    /\ symbol_table["a"] = 0
    /\ origin_marks = {0}
    /\ Len(lines) = 1
    /\ lines[1].addr = 65535
    /\ line.value.kind = "Byte"

----------------------------------------------------------------------------
(* C19 *)

\* the indices of the lines whose successor was emitted with no Origin
\* pragma processed in between
Adjacent == { i \in 1..(Len(lines) - 1) : i \notin origin_marks }

\* the pass goes on or ended well, and no Origin pragma was processed since
\* the last line was emitted
CounterFollowsLast ==
    /\ result.tag \in {"None", "Ok"}
    /\ lines # <<>>
    /\ Len(lines) \notin origin_marks

\* C19 as stated: the counter never wraps: of two lines emitted one after
\* the other with no Origin in between, the second is at the address of the
\* first plus its size in bytes, as an exact integer, and so is the counter
\* after the last line, an emission past 0xFFFF being rejected.
C19_CounterNeverWraps_Original ==
    /\ \A i \in Adjacent : lines[i + 1].addr = lines[i].addr + ByteSize(lines[i])
    /\ CounterFollowsLast =>
            addr = lines[Len(lines)].addr + ByteSize(lines[Len(lines)])

\* C19 (amended): the counter is a 16-bit integer: the second of two such
\* lines is at the address of the first plus its size modulo 0x10000, and so
\* is the counter after the last line. In a build with overflow checks the
\* sums are exact, an emission that moves the counter past 0xFFFF being
\* rejected by a panic; in a build without them the emission is accepted and
\* the lines that follow are at wrapped addresses.
C19_CounterNeverWraps ==
    /\ \A i \in Adjacent :
            /\ lines[i + 1].addr = (lines[i].addr + ByteSize(lines[i])) % U16
            /\ overflow_checks =>
                    lines[i + 1].addr = lines[i].addr + ByteSize(lines[i])
    /\ CounterFollowsLast =>
            /\ addr = (lines[Len(lines)].addr + ByteSize(lines[Len(lines)])) % U16
            /\ overflow_checks =>
                    addr = lines[Len(lines)].addr + ByteSize(lines[Len(lines)])

\* C19's case: in a build without overflow checks an Origin at 0xFFFF and
\* two bytes, the second emitted at 0 with the counter at 1
C19_Witness ==
    /\ ~overflow_checks
    /\ origin_marks = {0}
    /\ Len(lines) = 2
    /\ lines[1].addr = 65535
    /\ lines[2].addr = 0
    /\ addr = 1
    /\ result.tag = "None"

====
